---- MODULE Spec2Model ----
(***************************************************************************)
(* A model of the two tutorial notebooks:                                  *)
(*   task 1  src/nanogpt_tutorial/nanogpt_tutorial.ipynb  (word-level LM)  *)
(*   task 2  src/unnamed/part_000                       (GPT-Adder)        *)
(* Strings are sequences of one-character strings; tensors of ids are      *)
(* sequences of sequences of integers.  The external library (the GPT-2    *)
(* trunk, nn.Linear, CrossEntropyLoss, the optimizer) is represented by    *)
(* the shapes and the data dependencies of what it returns.                *)
(***************************************************************************)
EXTENDS Integers, Sequences, FiniteSets, TLC

(***************************************************************************)
(* Bounds of the model.                                                    *)
(***************************************************************************)
MaxNDigit == 2
MaxBatchSize == 2
MaxOperand == 99
MaxStrLen == 2
MaxNumTests == 2
MaxBlockSize == 10
MaxDataLen == 22
MaxVocab == 2
MaxIters == 4
MaxEvalInterval == 3
MaxEvalIters == 2
MaxTextLen == 3
MaxContextLen == 3
MaxSampled == 2

VARIABLES
    ndigit,        \* task 2: the configured number of digits
    batch_size,    \* both tasks: rows per batch
    block_size,    \* task 1: the context length
    text,          \* task 1: the corpus, a string
    unique_words,  \* task 1: the vocabulary, a sorted list of tokens
    data,          \* task 1: the encoded corpus
    training,      \* model.training: TRUE in train mode, FALSE in eval mode
    call,          \* the function called last
    args,          \* what it was called with (the random draws included)
    ret,           \* what it returned
    \* the training loop
    task,          \* 1 or 2: the notebook whose loop runs
    max_iters, eval_interval, eval_iters,
    pc,            \* the statement the loop is at
    iter_num,      \* the loop variable (-1 before the first iteration)
    rng,           \* batches drawn so far from the shared random stream
    batch,         \* xb, yb / questions, answers
    outputs,       \* outputs of the training step's forward pass
    grads,         \* the gradients held by the parameters
    params,        \* optimizer steps applied to the parameters
    eval_split, eval_k, eval_losses, eval_out,   \* estimate_loss: split, k, losses, out
    eval_calls,    \* history: calls of estimate_loss, per iteration
    log,           \* history: what the training part of this iteration has done
    used,          \* history: the batch of each optimizer step
    \* task 1: the generation loop
    context,       \* the encoded prompt, a tensor of one row
    generated,     \* the sequence generated so far, a tensor of one row
    context_cropped,   \* what the forward pass is given
    gen_outputs,   \* logits of the last position
    generated_text,    \* the decoded result
    gen_pc,        \* the statement the generation cell is at
    gen_i          \* iterations of the loop done

cfg == <<ndigit, batch_size, block_size, text, unique_words, data>>
loopcfg == <<task, max_iters, eval_interval, eval_iters>>
loop == <<loopcfg, pc, iter_num, rng, batch, outputs, grads, params,
          eval_split, eval_k, eval_losses, eval_out, eval_calls, log, used>>
gen == <<context, generated, context_cropped, gen_outputs, generated_text, gen_pc, gen_i>>
vars == <<cfg, training, call, args, ret, loop, gen>>

(***************************************************************************)
(* Python helpers.                                                         *)
(***************************************************************************)
RECURSIVE Pow(_, _)
Pow(b, e) == IF e = 0 THEN 1 ELSE b * Pow(b, e - 1)

DigitChars == <<"0", "1", "2", "3", "4", "5", "6", "7", "8", "9">>

\* str(n) for an integer n >= 0, as the f-string writes it
RECURSIVE str(_)
str(n) == IF n < 10 THEN <<DigitChars[n + 1]>>
          ELSE str(n \div 10) \o <<DigitChars[(n % 10) + 1]>>

\* s.ljust(width): pads on the right with spaces, never truncates
ljust(s, width) ==
    IF Len(s) >= width THEN s
    ELSE s \o [i \in 1..(width - Len(s)) |-> " "]

\* the Python value None, and a tensor known by its shape and what it is computed from
None == [tag |-> "None"]
Tensor(shape, src) == [tag |-> "tensor", shape |-> shape, src |-> src]

(***************************************************************************)
(* Task 2: configuration.                                                  *)
(***************************************************************************)
max_answer == (Pow(10, ndigit) - 1) + (Pow(10, ndigit) - 1)
\* a slip: the class of the answer 0 is not counted
num_answer_classes_exclusive == max_answer
num_answer_classes == max_answer + 1
max_question_length == ndigit + 1 + ndigit + 1

(***************************************************************************)
(* Task 2: vocabulary and codec.                                           *)
(***************************************************************************)
input_chars == <<"0", "1", "2", "3", "4", "5", "6", "7", "8", "9", "+", "=", " ">>
input_vocab_size == Len(input_chars)

\* {ch: i for i, ch in enumerate(input_chars)}
input_stoi == [ch \in {input_chars[k] : k \in 1..Len(input_chars)} |->
                  (CHOOSE k \in 1..Len(input_chars) : input_chars[k] = ch) - 1]
\* a slip: the id-to-symbol map enumerates sorted(input_chars)
input_itos_sorted ==
    [i \in 0..(Len(input_chars) - 1) |->
        <<" ", "+", "0", "1", "2", "3", "4", "5", "6", "7", "8", "9", "=">>[i + 1]]
\* {i: ch for i, ch in enumerate(input_chars)}
input_itos == [i \in 0..(Len(input_chars) - 1) |-> input_chars[i + 1]]

encode_input_raises(s) == \E k \in 1..Len(s) : s[k] \notin DOMAIN input_stoi
encode_input(s) == [k \in 1..Len(s) |-> input_stoi[s[k]]]

decode_input_raises(l) == \E k \in 1..Len(l) : l[k] \notin DOMAIN input_itos
decode_input(l) == [k \in 1..Len(l) |-> input_itos[l[k]]]

\* the first element of s that is no key of the dictionary d
FirstMissing(s, d) ==
    s[CHOOSE k \in 1..Len(s) :
          /\ s[k] \notin DOMAIN d
          /\ \A j \in 1..(k - 1) : s[j] \in DOMAIN d]

RECURSIVE KnownOnly(_, _)
KnownOnly(s, d) ==
    IF Len(s) = 0 THEN <<>>
    ELSE (IF s[1] \in DOMAIN d THEN <<d[s[1]]>> ELSE <<>>) \o KnownOnly(Tail(s), d)

\* a change: an unknown character is skipped, as the encoder of task 1 does
encode_input_call_skipping(s) ==
    [raised |-> FALSE, value |-> KnownOnly(s, input_stoi)]

\* a call of encode_input: the list, or the KeyError of the first lookup that fails
encode_input_call(s) ==
    IF encode_input_raises(s)
    THEN [raised |-> TRUE, exc |-> "KeyError", key |-> FirstMissing(s, input_stoi)]
    ELSE [raised |-> FALSE, value |-> encode_input(s)]

\* a call of decode_input: the string, or the KeyError of the first lookup that fails
decode_input_call(l) ==
    IF decode_input_raises(l)
    THEN [raised |-> TRUE, exc |-> "KeyError", key |-> FirstMissing(l, input_itos)]
    ELSE [raised |-> FALSE, value |-> decode_input(l)]

(***************************************************************************)
(* Task 2: problem generator.  a and b are the two values random.randint   *)
(* returned, in the order drawn.                                           *)
(***************************************************************************)
\* a slip: random.randint(0, 10**num_digits), whose upper end is inclusive
randint_range_inclusive(num_digits) == 0..Pow(10, num_digits)
\* the values random.randint(0, 10**num_digits - 1) can return
randint_range(num_digits) == 0..(Pow(10, num_digits) - 1)

\* a slip: the question names the first operand twice
generate_addition_data_repeated(a, b) ==
    LET c == a + b
    IN  [question |-> str(a) \o <<"+">> \o str(a) \o <<"=">>, answer |-> c]

generate_addition_data(a, b) ==
    LET c == a + b
    IN  [question |-> str(a) \o <<"+">> \o str(b) \o <<"=">>, answer |-> c]

(***************************************************************************)
(* Task 2: batch sampler.  draws[r] = <<a, b>> are the operands drawn for  *)
(* row r.                                                                  *)
(***************************************************************************)
\* a slip: the width leaves out the '='
pad_question_short(q_str) == ljust(q_str, ndigit + 1 + ndigit)
\* a slip: rjust, which pads in front of the question
pad_question_rjust(q_str) ==
    IF Len(q_str) >= max_question_length THEN q_str
    ELSE [i \in 1..(max_question_length - Len(q_str)) |-> " "] \o q_str
pad_question(q_str) == ljust(q_str, max_question_length)

get_batch(draws) ==
    LET row(r) == generate_addition_data(draws[r][1], draws[r][2])
    IN  [x |-> [r \in 1..batch_size |-> encode_input(pad_question(row(r).question))],
         y |-> [r \in 1..batch_size |-> row(r).answer]]

(***************************************************************************)
(* Task 2: AdditionClassifier.forward.  The trunk is causal: its hidden    *)
(* state at a position depends on the ids up to that position.             *)
(***************************************************************************)
transformer(input_ids) ==
    [r \in 1..Len(input_ids) |->
        [t \in 1..Len(input_ids[r]) |->
            [pos |-> t - 1, ctx |-> SubSeq(input_ids[r], 1, t)]]]

\* a slip: last_hidden_state[:, 0, :]
pooled_first(last_hidden_state) ==
    [r \in 1..Len(last_hidden_state) |-> last_hidden_state[r][1]]

\* last_hidden_state[:, -1, :]
pooled(last_hidden_state) ==
    [r \in 1..Len(last_hidden_state) |->
        last_hidden_state[r][Len(last_hidden_state[r])]]

\* a slip: nn.Linear(n_embd, max_answer)
classifier_max_answer(feature_vector) ==
    Tensor(<<Len(feature_vector), max_answer>>, feature_vector)

\* nn.Linear(n_embd, num_classes) with num_classes = num_answer_classes
classifier(feature_vector) ==
    Tensor(<<Len(feature_vector), num_answer_classes>>, feature_vector)

forward(input_ids, labels) ==
    LET feature_vector == pooled(transformer(input_ids))
        logits == classifier(feature_vector)
        loss == IF labels # None THEN Tensor(<<>>, <<logits, labels>>) ELSE None
    IN  [loss |-> loss, logits |-> logits]

(***************************************************************************)
(* Task 2: test_model_addition.  draws[i] = <<a, b>> are the operands      *)
(* drawn for test i.  The trunk has n_positions = max_question_length      *)
(* position embeddings and raises on a longer sequence.                    *)
(***************************************************************************)
transformer_raises(input_ids) ==
    \E r \in 1..Len(input_ids) : Len(input_ids[r]) > max_question_length

test_case(a, b) ==
    LET correct_answer == a + b
        question == str(a) \o <<"+">> \o str(b) \o <<"=">>
        padded_question == ljust(question, max_question_length)
        encoded_question == <<encode_input(padded_question)>>   \* unsqueeze(0)
    IN  [question |-> question, correct_answer |-> correct_answer,
         encoded_question |-> encoded_question,
         raises |-> transformer_raises(encoded_question),
         outputs |-> IF transformer_raises(encoded_question) THEN None
                     ELSE forward(encoded_question, None)]

\* the tests run: all of them, or those up to the first whose forward pass raises
test_model_addition(draws) ==
    LET cases == [i \in 1..Len(draws) |-> test_case(draws[i][1], draws[i][2])]
        bad == {i \in 1..Len(draws) : cases[i].raises}
        last == IF bad = {} THEN Len(draws)
                ELSE CHOOSE i \in bad : \A j \in bad : i <= j
    IN  [cases |-> SubSeq(cases, 1, last), raised |-> bad # {}]

(***************************************************************************)
(* Task 2: ask_adder.  What the model answers depends on its weights: the  *)
(* prediction is known by the logits it is the arg-max of.                 *)
(***************************************************************************)
\* s.endswith(suffix)
endswith(s, suffix) ==
    /\ Len(s) >= Len(suffix)
    /\ SubSeq(s, Len(s) - Len(suffix) + 1, Len(s)) = suffix

\* a slip: the '=' is appended without looking at the string
with_terminator_always(problem_input) == problem_input \o <<"=">>

\* if not problem_input.endswith('='): question = problem_input + '='
with_terminator(problem_input) ==
    IF ~endswith(problem_input, <<"=">>) THEN problem_input \o <<"=">>
    ELSE problem_input

ask_adder(problem_input) ==
    LET question == with_terminator(problem_input)
        padded_question == ljust(question, max_question_length)
    IN  IF encode_input_raises(padded_question)
        THEN [question |-> question, padded_question |-> padded_question,
              encoded_question |-> None, labels |-> None, outputs |-> None,
              predicted_answer |-> None, raised |-> TRUE, exc |-> "KeyError"]
        ELSE LET encoded_question == <<encode_input(padded_question)>>   \* unsqueeze(0)
             IN  IF transformer_raises(encoded_question)
                 THEN [question |-> question, padded_question |-> padded_question,
                       encoded_question |-> encoded_question, labels |-> None,
                       outputs |-> None, predicted_answer |-> None,
                       raised |-> TRUE, exc |-> "IndexError"]
                 ELSE LET out == forward(encoded_question, None)
                      IN  [question |-> question, padded_question |-> padded_question,
                           encoded_question |-> encoded_question, labels |-> None,
                           outputs |-> out,
                           predicted_answer |-> [tag |-> "argmax", of |-> out.logits],
                           raised |-> FALSE, exc |-> "none"]

(***************************************************************************)
(* Task 2 session: one call per step.                                      *)
(***************************************************************************)
\* the operands tried in batches: 0, the greatest of each length, and the first
\* value past the range
Edges(nd) == {0} \cup {Pow(10, k) - 1 : k \in 1..nd} \cup {Pow(10, nd)}
SampleOperands(nd) == {v \in randint_range(nd) : v \in Edges(nd)}

\* no training loop is running
LoopIdle ==
    /\ task = 0 /\ max_iters = 0 /\ eval_interval = 1 /\ eval_iters = 0
    /\ pc = "idle" /\ iter_num = -1 /\ rng = 0
    /\ batch = None /\ outputs = None /\ grads = None /\ params = 0
    /\ eval_split = "train" /\ eval_k = 0 /\ eval_losses = <<>> /\ eval_out = <<>>
    /\ eval_calls = <<>> /\ log = <<>> /\ used = <<>>

\* the generation cell of task 1 has not run: its names are not yet bound
GenIdle ==
    /\ context = <<>> /\ generated = <<>> /\ context_cropped = <<>>
    /\ gen_outputs = None /\ generated_text = <<>>
    /\ gen_pc = "idle" /\ gen_i = 0

Init ==
    /\ LoopIdle /\ GenIdle
    /\ ndigit \in 1..MaxNDigit
    /\ batch_size \in 1..MaxBatchSize
    \* task 1 is another notebook
    /\ block_size = 0 /\ text = <<>> /\ unique_words = <<>> /\ data = <<>>
    /\ training = TRUE
    /\ call = "none"
    /\ args = None
    /\ ret = None

CallGenerateAdditionData ==
    /\ call = "none"
    /\ \E a, b \in {v \in randint_range(ndigit) : v <= MaxOperand} :
        /\ call' = "generate_addition_data"
        /\ args' = [num_digits |-> ndigit, a |-> a, b |-> b]
        /\ ret' = generate_addition_data(a, b)
        /\ UNCHANGED <<cfg, training, loop, gen>>

CallGetBatch ==
    /\ call = "none"
    /\ \E draws \in [1..batch_size -> SampleOperands(ndigit) \X SampleOperands(ndigit)] :
        /\ call' = "get_batch"
        /\ args' = [draws |-> draws]
        /\ ret' = get_batch(draws)
        /\ UNCHANGED <<cfg, training, loop, gen>>

CallForward ==
    /\ call = "none"
    /\ \E draws \in [1..batch_size -> SampleOperands(ndigit) \X SampleOperands(ndigit)],
       with_labels \in BOOLEAN :
        LET b == get_batch(draws)
            labels == IF with_labels THEN Tensor(<<batch_size>>, b.y) ELSE None
        IN  /\ call' = "forward"
            /\ args' = [draws |-> draws, input_ids |-> b.x, labels |-> labels]
            /\ ret' = forward(b.x, labels)
            /\ UNCHANGED <<cfg, training, loop, gen>>

CallCodec ==
    /\ call = "none"
    /\ \E len \in 0..MaxStrLen :
      \E s \in [1..len -> DOMAIN input_stoi] :
        /\ call' = "codec"
        /\ args' = [s |-> s]
        /\ ret' = [encoded |-> encode_input(s),
                   decoded |-> decode_input(encode_input(s))]
        /\ UNCHANGED <<cfg, training, loop, gen>>

\* model.eval() ... model.train(): the last line is not reached when a test raises
CallTestModelAddition ==
    /\ call = "none"
    /\ \E num_tests \in 1..MaxNumTests, num_digits_test \in 1..MaxNDigit :
       \E draws \in [1..num_tests ->
                        SampleOperands(num_digits_test) \X SampleOperands(num_digits_test)] :
        LET out == test_model_addition(draws)
        IN  /\ call' = "test_model_addition"
            /\ args' = [num_tests |-> num_tests, num_digits_test |-> num_digits_test,
                        draws |-> draws]
            /\ ret' = out
            /\ training' = ~out.raised
            /\ UNCHANGED <<cfg, loop, gen>>

\* the problems asked: "a+b" and "a+b=" for the operands tried, and the short
\* strings over a few symbols, one of them not in the vocabulary
AskChars == {"1", "+", "=", " ", "x"}
AskInputs(nd) ==
    {str(a) \o <<"+">> \o str(b) \o suffix :
        a \in Edges(nd), b \in Edges(nd), suffix \in {<<>>, <<"=">>}}
    \cup UNION {[1..len -> AskChars] : len \in 0..MaxStrLen}

\* a change: model.train() stands in a finally clause
CallAskAdderRestoring ==
    /\ call = "none"
    /\ \E problem_input \in AskInputs(ndigit) :
        LET out == ask_adder(problem_input)
        IN  /\ call' = "ask_adder"
            /\ args' = [problem_input |-> problem_input]
            /\ ret' = out
            /\ training' = TRUE
            /\ UNCHANGED <<cfg, loop, gen>>

\* model.eval() ... model.train(): the last line is not reached when the
\* encoding or the forward pass raises
CallAskAdder ==
    /\ call = "none"
    /\ \E problem_input \in AskInputs(ndigit) :
        LET out == ask_adder(problem_input)
        IN  /\ call' = "ask_adder"
            /\ args' = [problem_input |-> problem_input]
            /\ ret' = out
            /\ training' = ~out.raised
            /\ UNCHANGED <<cfg, loop, gen>>

\* the ids tried by decode_input: the ends of the id range and their neighbours
DecodeIds == {-1, 0, input_vocab_size - 1, input_vocab_size}

CallEncodeInput ==
    /\ call = "none"
    /\ \E len \in 0..MaxStrLen :
      \E s \in [1..len -> AskChars] :
        /\ call' = "encode_input"
        /\ args' = [s |-> s]
        /\ ret' = encode_input_call(s)
        /\ UNCHANGED <<cfg, training, loop, gen>>

CallDecodeInput ==
    /\ call = "none"
    /\ \E len \in 0..MaxStrLen :
      \E l \in [1..len -> DecodeIds] :
        /\ call' = "decode_input"
        /\ args' = [l |-> l]
        /\ ret' = decode_input_call(l)
        /\ UNCHANGED <<cfg, training, loop, gen>>

\* the call has returned and its result has been looked at
Return ==
    /\ call # "none"
    /\ call' = "none"
    /\ args' = None
    /\ ret' = None
    /\ UNCHANGED <<cfg, training, loop, gen>>

Next ==
    \/ Return
    \/ CallGenerateAdditionData
    \/ CallGetBatch
    \/ CallForward
    \/ CallCodec
    \/ CallTestModelAddition
    \/ CallAskAdder
    \/ CallEncodeInput
    \/ CallDecodeInput

Spec == Init /\ [][Next]_vars

(***************************************************************************)
(* Task 1: tokenizer, vocabulary and codec.  A token is a string, so a     *)
(* sequence of characters.                                                 *)
(***************************************************************************)
\* ord(ch) for the characters of the model
ord == (" " :> 32) @@ ("!" :> 33) @@ ("'" :> 39) @@ ("(" :> 40) @@ ("," :> 44)
       @@ ("-" :> 45) @@ ("." :> 46) @@ (":" :> 58) @@ (";" :> 59) @@ ("?" :> 63)
       @@ ("A" :> 65) @@ ("B" :> 66) @@ ("a" :> 97) @@ ("b" :> 98) @@ ("c" :> 99)
       @@ ("d" :> 100)

\* the character classes \w and \s of the regular expression
is_word_char(ch) == ch \in {"A", "B", "a", "b", "c", "d"}
is_space_char(ch) == ch = " "

\* s.lower()
lower_char(ch) == IF ch = "A" THEN "a" ELSE IF ch = "B" THEN "b" ELSE ch
lower(s) == [k \in 1..Len(s) |-> lower_char(s[k])]

\* re.findall(r'\b\w+\b|[^\w\s]', t): scanning from the left, a maximal run of
\* word characters is one token, a character that is neither a word character
\* nor white space is a token of its own, white space is skipped.  run is the
\* run of word characters read so far.
RECURSIVE findall_scan(_, _)
findall_scan(t, run) ==
    LET flushed == IF Len(run) = 0 THEN <<>> ELSE <<run>>
    IN  IF Len(t) = 0 THEN flushed
        ELSE IF is_word_char(t[1]) THEN findall_scan(Tail(t), Append(run, t[1]))
        ELSE IF is_space_char(t[1]) THEN flushed \o findall_scan(Tail(t), <<>>)
        ELSE flushed \o <<(<<t[1]>>)>> \o findall_scan(Tail(t), <<>>)

findall(t) == findall_scan(t, <<>>)

\* u < v for Python strings: by code point at the first difference, a proper
\* prefix first
str_less(u, v) ==
    \E k \in 1..(Len(v)) :
        /\ \A i \in 1..(k - 1) : i <= Len(u) /\ u[i] = v[i]
        /\ (k > Len(u) \/ (k <= Len(u) /\ ord[u[k]] < ord[v[k]]))

\* sorted(S) of a set of strings
RECURSIVE sorted(_)
sorted(S) ==
    IF S = {} THEN <<>>
    ELSE LET least == CHOOSE x \in S : \A y \in S : x = y \/ str_less(x, y)
         IN  <<least>> \o sorted(S \ {least})

\* a slip: the tokens are deduplicated in the order they occur, and not sorted
RECURSIVE first_occurrences(_)
first_occurrences(ws) ==
    IF Len(ws) = 0 THEN <<>>
    ELSE LET rest == first_occurrences(SubSeq(ws, 1, Len(ws) - 1))
         IN  IF \E i \in 1..Len(rest) : rest[i] = ws[Len(ws)] THEN rest
             ELSE Append(rest, ws[Len(ws)])
vocabulary_unsorted(t) == first_occurrences(findall(lower(t)))

\* sorted(list(set(re.findall(..., t.lower()))))
vocabulary(t) ==
    LET ws == findall(lower(t))
    IN  sorted({ws[i] : i \in 1..Len(ws)})

words == findall(lower(text))
vocab_size == Len(unique_words)

\* {word: i for i, word in enumerate(unique_words)} and its reverse
stoi == [w \in {unique_words[k] : k \in 1..Len(unique_words)} |->
            (CHOOSE k \in 1..Len(unique_words) : unique_words[k] = w) - 1]
itos == [i \in 0..(Len(unique_words) - 1) |-> unique_words[i + 1]]

\* [stoi[word] for word in words if word in stoi]
encode(s) == KnownOnly(findall(lower(s)), stoi)

\* the characters that decode writes without a space in front
joined_chars == <<".", ",", "!", "?", ";", ":", "-", "'">>

\* word in ".,!?;:-'": the test of a substring
is_substring(word, s) ==
    \E o \in 0..(Len(s) - Len(word)) : SubSeq(s, o + 1, o + Len(word)) = word

decode_raises(l) == \E k \in 1..Len(l) : l[k] \notin DOMAIN itos

\* a slip: the words are written one after the other, as ''.join(words) does
RECURSIVE decode_loop_concat(_, _)
decode_loop_concat(ws, result) ==
    IF Len(ws) = 0 THEN result
    ELSE decode_loop_concat(Tail(ws), result \o ws[1])

\* a change: every word is written with a space in front
RECURSIVE decode_loop_spaces(_, _)
decode_loop_spaces(ws, result) ==
    IF Len(ws) = 0 THEN result
    ELSE decode_loop_spaces(Tail(ws), result \o <<" ">> \o ws[1])

\* the loop of decode over the words, result being the string so far
RECURSIVE decode_loop(_, _)
decode_loop(ws, result) ==
    IF Len(ws) = 0 THEN result
    ELSE decode_loop(Tail(ws),
                     IF is_substring(ws[1], joined_chars) THEN result \o ws[1]
                     ELSE result \o <<" ">> \o ws[1])

decode(l) == decode_loop([k \in 1..Len(l) |-> itos[l[k]]], <<>>)

(***************************************************************************)
(* Task 1: the split of the corpus and the batch sampler.  ix[r] is the    *)
(* offset torch.randint drew for row r.                                    *)
(***************************************************************************)
Max(a, b) == IF a > b THEN a ELSE b

\* s[lo:hi] for 0 <= lo <= hi: a slice is cut at the end of s, without an error
PySlice(s, lo, hi) == SubSeq(s, lo + 1, IF hi < Len(s) THEN hi ELSE Len(s))

\* a slip: the half is rounded up
n_rounded_up == (Len(data) + 1) \div 2
n == Len(data) \div 2                       \* int(0.5*len(data))
train_data == PySlice(data, 0, n)           \* data[:n]
val_data == PySlice(data, n, Len(data))     \* data[n:]

partition(split) == IF split = "train" THEN train_data ELSE val_data

\* a slip: one offset too many
sample_high_plus_one(data_) == Len(data_) - block_size + 1
\* a change: a short partition is sampled at offset 0 instead of failing
sample_high_clamped(data_) == Max(1, Len(data_) - block_size)
\* the first argument of torch.randint
sample_high(data_) == Len(data_) - block_size

\* torch.randint(high, (batch_size,)) raises unless 0 < high, and draws from [0, high)
torch_randint_raises(high) == high <= 0
torch_randint_values(high) == 0..(high - 1)

\* torch.stack raises unless all rows have the same size
torch_stack_raises(rows) ==
    \E r1, r2 \in DOMAIN rows : Len(rows[r1]) # Len(rows[r2])

nano_get_batch(split, ix) ==
    LET data_ == partition(split)
        x == [r \in 1..batch_size |-> PySlice(data_, ix[r], ix[r] + block_size)]
        y == [r \in 1..batch_size |-> PySlice(data_, ix[r] + 1, ix[r] + block_size + 1)]
    IN  IF torch_stack_raises(x) \/ torch_stack_raises(y)
        THEN [raised |-> TRUE]
        ELSE [raised |-> FALSE, x |-> x, y |-> y]

(***************************************************************************)
(* Task 1 session.  The corpus has len words out of v, in cyclic order,     *)
(* with one space between two words.                                       *)
(***************************************************************************)
Letters == <<"a", "b", "c", "d">>
RECURSIVE CorpusText(_, _)
CorpusText(len, v) ==
    IF len = 0 THEN <<>>
    ELSE IF len = 1 THEN <<Letters[1]>>
    ELSE CorpusText(len - 1, v) \o <<" ", Letters[((len - 1) % v) + 1]>>

NanoInit ==
    /\ LoopIdle /\ GenIdle
    /\ ndigit = 0                          \* task 2 is another notebook
    /\ text \in {CorpusText(len, v) : len \in 0..MaxDataLen, v \in 1..MaxVocab}
    /\ unique_words = vocabulary(text)
    /\ data = encode(text)
    /\ batch_size \in 1..MaxBatchSize
    /\ block_size \in 1..MaxBlockSize
    /\ training = TRUE
    /\ call = "none"
    /\ args = None
    /\ ret = None

CallNanoGetBatch ==
    /\ call = "none"
    /\ \E split \in {"train", "val"} :
        LET high == sample_high(partition(split))
        IN  /\ call' = "nano_get_batch"
            /\ IF torch_randint_raises(high)
               THEN /\ args' = [split |-> split, ix |-> <<>>]
                    /\ ret' = [raised |-> TRUE]
               ELSE \E ix \in [1..batch_size -> torch_randint_values(high)] :
                        /\ args' = [split |-> split, ix |-> ix]
                        /\ ret' = nano_get_batch(split, ix)
            /\ UNCHANGED <<cfg, training, loop, gen>>

NanoNext ==
    \/ Return
    \/ CallNanoGetBatch

NanoSpec == NanoInit /\ [][NanoNext]_vars

(***************************************************************************)
(* Task 1 session of the codec.  The corpus is any short string over a     *)
(* few characters: a letter, a space, a punctuation mark that decode joins *)
(* and one that it does not; the strings encoded have capital letters too. *)
(***************************************************************************)
CorpusChars == {"a", " ", ".", "("}
TextChars == CorpusChars \cup {"A"}

\* a change: a token that is not in the vocabulary raises, as in task 2
encode_call_strict(s) ==
    LET ws == findall(lower(s))
    IN  IF \E k \in 1..Len(ws) : ws[k] \notin DOMAIN stoi
        THEN [raised |-> TRUE, exc |-> "KeyError"]
        ELSE [raised |-> FALSE, value |-> encode(s)]

\* a call of encode: the comprehension looks up only the words it has found in stoi
encode_call(s) == [raised |-> FALSE, value |-> encode(s)]

\* a call of decode: the string, or the KeyError of itos[i]
decode_call(l) ==
    IF decode_raises(l) THEN [raised |-> TRUE, exc |-> "KeyError"]
    ELSE [raised |-> FALSE, value |-> decode(l)]

CodecInit ==
    /\ LoopIdle /\ GenIdle
    /\ ndigit = 0                          \* task 2 is another notebook
    /\ text \in UNION {[1..len -> CorpusChars] : len \in 0..MaxTextLen}
    /\ unique_words = vocabulary(text)
    /\ data = encode(text)
    /\ batch_size = 1
    /\ block_size = 1
    /\ training = TRUE
    /\ call = "none"
    /\ args = None
    /\ ret = None

\* encoded = encode(test_text); decoded = decode(encoded)
CallEncodeDecode ==
    /\ call = "none"
    /\ \E len \in 0..MaxStrLen :
      \E s \in [1..len -> TextChars] :
        LET encoded == encode_call(s)
        IN  /\ call' = "encode"
            /\ args' = [s |-> s]
            /\ ret' = [encoded |-> encoded,
                       decoded |-> IF encoded.raised THEN None
                                   ELSE decode_call(encoded.value)]
            /\ UNCHANGED <<cfg, training, loop, gen>>

\* decode(l) for a list of ids, vocab_size being the first id that is none
CallDecode ==
    /\ call = "none"
    /\ \E len \in 0..MaxStrLen :
      \E l \in [1..len -> 0..vocab_size] :
        /\ call' = "decode"
        /\ args' = [l |-> l]
        /\ ret' = decode_call(l)
        /\ UNCHANGED <<cfg, training, loop, gen>>

\* encode(decode(l)) for a list of ids of the vocabulary
CallDecodeEncode ==
    /\ call = "none"
    /\ \E len \in 0..MaxStrLen :
      \E l \in [1..len -> 0..(vocab_size - 1)] :
        LET decoded == decode_call(l)
        IN  /\ call' = "decode_encode"
            /\ args' = [l |-> l]
            /\ ret' = [decoded |-> decoded,
                       encoded |-> IF decoded.raised THEN None
                                   ELSE encode_call(decoded.value)]
            /\ UNCHANGED <<cfg, training, loop, gen>>

CodecNext ==
    \/ Return
    \/ CallEncodeDecode
    \/ CallDecode
    \/ CallDecodeEncode

CodecSpec == CodecInit /\ [][CodecNext]_vars

(***************************************************************************)
(* The training loop of both notebooks, statement by statement, with       *)
(* estimate_loss inlined at its call.  A batch is known by its position in *)
(* the shared random stream and by where its rows come from.               *)
(***************************************************************************)
\* a change: task 2 evaluates 'val' on problems held out of training
loop_get_batch_held_out(split) ==
    [id |-> rng,
     src |-> IF split = "train"
             THEN (IF task = 1 THEN "train_data" ELSE "generate_addition_data")
             ELSE (IF task = 1 THEN "val_data" ELSE "held_out_problems")]

\* get_batch(split) of task 1, get_batch() of task 2
loop_get_batch(split) ==
    [id |-> rng,
     src |-> IF task = 1
             THEN (IF split = "train" THEN "train_data" ELSE "val_data")
             ELSE "generate_addition_data"]

\* model(X, labels=Y): the pass sees the batch, and with it the data its rows
\* come from, the parameters and the mode
loop_forward(b, labels) ==
    [batch |-> b.id, src |-> b.src, labels |-> labels, training |-> training,
     params |-> params]

\* a slip: the final iteration is not forced
eval_due_interval_only(i) == i % eval_interval = 0
\* iter_num % eval_interval == 0 or iter_num == max_iters - 1
eval_due(i) == i % eval_interval = 0 \/ i = max_iters - 1

TrainInit ==
    /\ ndigit = 0 /\ batch_size = 1 /\ block_size = 0
    /\ text = <<>> /\ unique_words = <<>> /\ data = <<>>
    /\ call = "none" /\ args = None /\ ret = None
    /\ GenIdle
    /\ training = TRUE
    /\ task \in {1, 2}
    /\ max_iters \in 0..MaxIters
    /\ eval_interval \in 1..MaxEvalInterval
    /\ eval_iters \in 1..MaxEvalIters
    /\ pc = "for" /\ iter_num = -1 /\ rng = 0
    /\ batch = None /\ outputs = None /\ grads = None /\ params = 0
    /\ eval_split = "train" /\ eval_k = 0 /\ eval_losses = <<>> /\ eval_out = <<>>
    /\ eval_calls = [i \in 0..(max_iters - 1) |-> 0]
    /\ log = <<>> /\ used = <<>>

session == <<cfg, call, args, ret, loopcfg, gen>>

\* for iter_num in range(max_iters): the next iteration starts
ForNext ==
    /\ pc = "for" /\ iter_num + 1 < max_iters
    /\ iter_num' = iter_num + 1
    /\ log' = <<>>
    /\ pc' = "if"
    /\ UNCHANGED <<session, training, rng, batch, outputs, grads, params,
                   eval_split, eval_k, eval_losses, eval_out, eval_calls, used>>

\* a change: the trained model is evaluated once more after the loop
ForExitEvaluated ==
    /\ pc = "for" /\ iter_num + 1 >= max_iters
    /\ pc' = "done"
    /\ eval_out' = [j \in 1..2 |->
                      [split |-> <<"train", "val">>[j],
                       mean_of |-> [k \in 1..eval_iters |->
                                      [batch |-> rng + (j - 1) * eval_iters + k - 1,
                                       src |-> loop_get_batch(<<"train", "val">>[j]).src,
                                       labels |-> TRUE, training |-> FALSE,
                                       params |-> params]]]]
    /\ rng' = rng + 2 * eval_iters
    /\ UNCHANGED <<session, training, iter_num, batch, outputs, grads, params,
                   eval_split, eval_k, eval_losses, eval_calls, log, used>>

\* range(max_iters) is exhausted
ForExit ==
    /\ pc = "for" /\ iter_num + 1 >= max_iters
    /\ pc' = "done"
    /\ UNCHANGED <<session, training, iter_num, rng, batch, outputs, grads, params,
                   eval_split, eval_k, eval_losses, eval_out, eval_calls, log, used>>

\* the condition holds: estimate_loss() is entered; out = {}; model.eval()
EvalDue ==
    /\ pc = "if" /\ eval_due(iter_num)
    /\ eval_calls' = [eval_calls EXCEPT ![iter_num] = @ + 1]
    /\ eval_out' = <<>>
    /\ training' = FALSE
    /\ eval_split' = "train" /\ eval_k' = 0 /\ eval_losses' = <<>>
    /\ pc' = "eval_batch"
    /\ UNCHANGED <<session, iter_num, rng, batch, outputs, grads, params, log, used>>

EvalSkip ==
    /\ pc = "if" /\ ~eval_due(iter_num)
    /\ pc' = "get_batch"
    /\ UNCHANGED <<session, training, iter_num, rng, batch, outputs, grads, params,
                   eval_split, eval_k, eval_losses, eval_out, eval_calls, log, used>>

\* a slip: X, Y = get_batch(split) stands before the inner loop, so that every
\* pass of a split sees the batch of its first pass
EvalBatchSampledOnce ==
    /\ pc = "eval_batch" /\ eval_k < eval_iters
    /\ eval_losses' = Append(eval_losses,
                             IF eval_k = 0
                             THEN loop_forward(loop_get_batch(eval_split), TRUE)
                             ELSE eval_losses[1])
    /\ rng' = IF eval_k = 0 THEN rng + 1 ELSE rng
    /\ eval_k' = eval_k + 1
    /\ UNCHANGED <<session, training, pc, iter_num, batch, outputs, grads, params,
                   eval_split, eval_out, eval_calls, log, used>>

\* a change: the evaluation samples from a generator of its own
EvalBatchOwnStream ==
    /\ pc = "eval_batch" /\ eval_k < eval_iters
    /\ eval_losses' = Append(eval_losses, loop_forward(loop_get_batch(eval_split), TRUE))
    /\ eval_k' = eval_k + 1
    /\ UNCHANGED <<session, training, pc, iter_num, rng, batch, outputs, grads, params,
                   eval_split, eval_out, eval_calls, log, used>>

\* a slip: the evaluation pass takes an optimizer step on its batch
EvalBatchStepping ==
    /\ pc = "eval_batch" /\ eval_k < eval_iters
    /\ eval_losses' = Append(eval_losses, loop_forward(loop_get_batch(eval_split), TRUE))
    /\ rng' = rng + 1
    /\ eval_k' = eval_k + 1
    /\ params' = params + 1
    /\ UNCHANGED <<session, training, pc, iter_num, batch, outputs, grads,
                   eval_split, eval_out, eval_calls, log, used>>

\* X, Y = get_batch(split); outputs = model(X, labels=Y); the loss is kept
EvalBatch ==
    /\ pc = "eval_batch" /\ eval_k < eval_iters
    /\ eval_losses' = Append(eval_losses, loop_forward(loop_get_batch(eval_split), TRUE))
    /\ rng' = rng + 1
    /\ eval_k' = eval_k + 1
    /\ UNCHANGED <<session, training, pc, iter_num, batch, outputs, grads, params,
                   eval_split, eval_out, eval_calls, log, used>>

\* out[split] = mean of the losses; the next split, or the end of the loop
EvalSplitDone ==
    /\ pc = "eval_batch" /\ eval_k = eval_iters
    /\ eval_out' = Append(eval_out, [split |-> eval_split, mean_of |-> eval_losses])
    /\ IF eval_split = "train"
       THEN /\ eval_split' = "val" /\ eval_k' = 0 /\ eval_losses' = <<>>
            /\ pc' = pc
       ELSE /\ UNCHANGED <<eval_split, eval_k, eval_losses>>
            /\ pc' = "eval_return"
    /\ UNCHANGED <<session, training, iter_num, rng, batch, outputs, grads, params,
                   eval_calls, log, used>>

\* a slip: model.train() is missing before the return
EvalReturnStaysEval ==
    /\ pc = "eval_return"
    /\ pc' = "get_batch"
    /\ UNCHANGED <<session, training, iter_num, rng, batch, outputs, grads, params,
                   eval_split, eval_k, eval_losses, eval_out, eval_calls, log, used>>

\* model.train(); return out
EvalReturn ==
    /\ pc = "eval_return"
    /\ training' = TRUE
    /\ pc' = "get_batch"
    /\ UNCHANGED <<session, iter_num, rng, batch, outputs, grads, params,
                   eval_split, eval_k, eval_losses, eval_out, eval_calls, log, used>>

\* a slip: the training step samples the validation partition
TrainGetBatchVal ==
    /\ pc = "get_batch"
    /\ batch' = loop_get_batch("val")
    /\ rng' = rng + 1
    /\ log' = Append(log, [op |-> "get_batch", batch |-> batch'.id])
    /\ pc' = "forward"
    /\ UNCHANGED <<session, training, iter_num, outputs, grads, params,
                   eval_split, eval_k, eval_losses, eval_out, eval_calls, used>>

\* a change: the batch is sampled once and kept
TrainGetBatchCached ==
    /\ pc = "get_batch"
    /\ batch' = IF batch = None THEN loop_get_batch("train") ELSE batch
    /\ rng' = IF batch = None THEN rng + 1 ELSE rng
    /\ log' = Append(log, [op |-> "get_batch", batch |-> batch'.id])
    /\ pc' = "forward"
    /\ UNCHANGED <<session, training, iter_num, outputs, grads, params,
                   eval_split, eval_k, eval_losses, eval_out, eval_calls, used>>

\* xb, yb = get_batch('train') / questions, answers = get_batch()
TrainGetBatch ==
    /\ pc = "get_batch"
    /\ batch' = loop_get_batch("train")
    /\ rng' = rng + 1
    /\ log' = Append(log, [op |-> "get_batch", batch |-> batch'.id])
    /\ pc' = "forward"
    /\ UNCHANGED <<session, training, iter_num, outputs, grads, params,
                   eval_split, eval_k, eval_losses, eval_out, eval_calls, used>>

\* outputs = model(xb, labels=yb); loss = outputs.loss
TrainForward ==
    /\ pc = "forward"
    /\ outputs' = loop_forward(batch, TRUE)
    /\ log' = Append(log, [op |-> "forward", batch |-> batch.id, labels |-> TRUE])
    /\ pc' = "zero_grad"
    /\ UNCHANGED <<session, training, iter_num, rng, batch, grads, params,
                   eval_split, eval_k, eval_losses, eval_out, eval_calls, used>>

\* optimizer.zero_grad(set_to_none=True)
ZeroGrad ==
    /\ pc = "zero_grad"
    /\ grads' = None
    /\ log' = Append(log, [op |-> "zero_grad"])
    /\ pc' = "backward"
    /\ UNCHANGED <<session, training, iter_num, rng, batch, outputs, params,
                   eval_split, eval_k, eval_losses, eval_out, eval_calls, used>>

\* loss.backward(): the gradients of this pass's loss
Backward ==
    /\ pc = "backward"
    /\ grads' = [of |-> outputs.batch]
    /\ log' = Append(log, [op |-> "backward", batch |-> outputs.batch])
    /\ pc' = "step"
    /\ UNCHANGED <<session, training, iter_num, rng, batch, outputs, params,
                   eval_split, eval_k, eval_losses, eval_out, eval_calls, used>>

\* optimizer.step()
OptimizerStep ==
    /\ pc = "step"
    /\ params' = params + 1
    /\ used' = Append(used, grads.of)
    /\ log' = Append(log, [op |-> "step"])
    /\ pc' = "for"
    /\ UNCHANGED <<session, training, iter_num, rng, batch, outputs, grads,
                   eval_split, eval_k, eval_losses, eval_out, eval_calls>>

TrainNext ==
    \/ ForNext
    \/ ForExit
    \/ EvalDue
    \/ EvalSkip
    \/ EvalBatch
    \/ EvalSplitDone
    \/ EvalReturn
    \/ TrainGetBatch
    \/ TrainForward
    \/ ZeroGrad
    \/ Backward
    \/ OptimizerStep

\* the loop is sequential code: it takes its next step whenever it has one
TrainSpec == TrainInit /\ [][TrainNext]_vars /\ WF_vars(TrainNext)

(***************************************************************************)
(* Task 1: the generation cell, statement by statement.  The id sampled    *)
(* depends on the weights and on the random stream: any id of the          *)
(* vocabulary.                                                             *)
(***************************************************************************)
num_generated == 50                     \* range(50)

\* s[start:], a negative start counting from the end
PySuffix(s, start) ==
    LET lo == IF start < 0 THEN Max(Len(s) + start, 0)
              ELSE (IF start < Len(s) THEN start ELSE Len(s))
    IN  SubSeq(s, lo + 1, Len(s))

\* a slip: one id too many is kept
crop_one_more(generated_) ==
    IF Len(generated_[1]) > block_size
    THEN <<PySuffix(generated_[1], -(block_size + 1))>>
    ELSE generated_

\* generated[:, -block_size:] if generated.size(1) > block_size else generated
crop(generated_) ==
    IF Len(generated_[1]) > block_size
    THEN <<PySuffix(generated_[1], -block_size)>>
    ELSE generated_

\* the trunk has n_positions = block_size position embeddings
gen_model_raises(input_ids) == Len(input_ids[1]) > block_size

\* model(context_cropped).logits[:, -1, :]
last_logits(input_ids) ==
    Tensor(<<1, vocab_size>>,
           [pos |-> Len(input_ids[1]) - 1, ctx |-> input_ids[1]])

\* a slip: the loop runs once more
for_continues_inclusive(i) == i <= num_generated
\* for _ in range(50)
for_continues(i) == i < num_generated

\* the ids tried for next_token: any id in the first steps, one id per step later
Sampled(i) ==
    IF i < MaxSampled THEN 0..(vocab_size - 1) ELSE {i % vocab_size}

\* the corpus is long enough for the training that comes before; the prompt
\* is a start of it, shorter or longer than block_size
GenConfig ==
    /\ ndigit = 0                          \* task 2 is another notebook
    /\ batch_size = 1
    /\ block_size \in 1..(MaxContextLen + 1)
    /\ text \in {CorpusText(2 * (block_size + 1), v) : v \in 1..MaxVocab}
    /\ unique_words = vocabulary(text)
    /\ data = encode(text)
    /\ context \in {<<encode(CorpusText(len, vocab_size))>> : len \in 1..MaxContextLen}
    /\ generated = <<>> /\ context_cropped = <<>>
    /\ gen_outputs = None /\ generated_text = <<>>
    /\ gen_pc = "idle" /\ gen_i = 0

GenInit ==
    /\ LoopIdle
    /\ GenConfig
    /\ training = TRUE
    /\ call = "none"
    /\ args = None
    /\ ret = None

nogen == <<cfg, call, args, ret, loop>>

\* generated = context; model.eval()
GenStart ==
    /\ gen_pc = "idle"
    /\ generated' = context
    /\ training' = FALSE
    /\ gen_pc' = "for"
    /\ UNCHANGED <<nogen, context, context_cropped, gen_outputs, generated_text, gen_i>>

GenFor ==
    /\ gen_pc = "for" /\ for_continues(gen_i)
    /\ gen_pc' = "crop"
    /\ UNCHANGED <<nogen, training, context, generated, context_cropped, gen_outputs,
                   generated_text, gen_i>>

GenForExit ==
    /\ gen_pc = "for" /\ ~for_continues(gen_i)
    /\ gen_pc' = "decode"
    /\ UNCHANGED <<nogen, training, context, generated, context_cropped, gen_outputs,
                   generated_text, gen_i>>

GenCrop ==
    /\ gen_pc = "crop"
    /\ context_cropped' = crop(generated)
    /\ gen_pc' = "forward"
    /\ UNCHANGED <<nogen, training, context, generated, gen_outputs, generated_text, gen_i>>

\* outputs = model(context_cropped); logits = outputs.logits[:, -1, :]
GenForward ==
    /\ gen_pc = "forward"
    /\ IF gen_model_raises(context_cropped)
       THEN gen_outputs' = None /\ gen_pc' = "raised"
       ELSE gen_outputs' = last_logits(context_cropped) /\ gen_pc' = "sample"
    /\ UNCHANGED <<nogen, training, context, generated, context_cropped,
                   generated_text, gen_i>>

\* probs = softmax(logits); next_token = multinomial(probs); generated = cat(...)
GenSample ==
    /\ gen_pc = "sample"
    /\ \E next_token \in Sampled(gen_i) :
          generated' = <<Append(generated[1], next_token)>>
    /\ gen_i' = gen_i + 1
    /\ gen_pc' = "for"
    /\ UNCHANGED <<nogen, training, context, context_cropped, gen_outputs, generated_text>>

\* generated_text = decode(generated[0].tolist())
GenDecode ==
    /\ gen_pc = "decode"
    /\ generated_text' = decode(generated[1])
    /\ gen_pc' = "done"
    /\ UNCHANGED <<nogen, training, context, generated, context_cropped, gen_outputs, gen_i>>

GenNext ==
    \/ GenStart
    \/ GenFor
    \/ GenForExit
    \/ GenCrop
    \/ GenForward
    \/ GenSample
    \/ GenDecode

\* the cell is sequential code: it takes its next step whenever it has one
GenSpec == GenInit /\ [][GenNext]_vars /\ WF_vars(GenNext)

(***************************************************************************)
(* A notebook from its training loop on: a short training run, then the    *)
(* cells that use the trained model, in any order and any number of times: *)
(* test_model_addition and ask_adder in task 2, the generation cell in     *)
(* task 1.                                                                 *)
(***************************************************************************)
AdderConfig ==
    /\ ndigit \in 1..MaxNDigit
    /\ batch_size = 1
    \* task 1 is another notebook
    /\ block_size = 0 /\ text = <<>> /\ unique_words = <<>> /\ data = <<>>
    /\ GenIdle

NotebookInit ==
    /\ \/ task = 1 /\ GenConfig
       \/ task = 2 /\ AdderConfig
    /\ call = "none" /\ args = None /\ ret = None
    /\ training = TRUE
    /\ max_iters \in 2..3
    /\ eval_interval = 2
    /\ eval_iters = 1
    /\ pc = "for" /\ iter_num = -1 /\ rng = 0
    /\ batch = None /\ outputs = None /\ grads = None /\ params = 0
    /\ eval_split = "train" /\ eval_k = 0 /\ eval_losses = <<>> /\ eval_out = <<>>
    /\ eval_calls = [i \in 0..(max_iters - 1) |-> 0]
    /\ log = <<>> /\ used = <<>>

AfterTraining ==
    /\ pc = "done"
    /\ \/ task = 2 /\ CallTestModelAddition
       \/ task = 2 /\ CallAskAdder
       \/ task = 2 /\ Return
       \/ task = 1 /\ GenNext

NotebookNext ==
    \/ TrainNext
    \/ AfterTraining

NotebookSpec == NotebookInit /\ [][NotebookNext]_vars

(***************************************************************************)
(* Claims about task 2.                                                    *)
(***************************************************************************)
DigitValue(ch) == (CHOOSE k \in 1..Len(DigitChars) : DigitChars[k] = ch) - 1

RECURSIVE ParseInt(_)
ParseInt(ds) ==
    IF Len(ds) = 0 THEN 0
    ELSE 10 * ParseInt(SubSeq(ds, 1, Len(ds) - 1)) + DigitValue(ds[Len(ds)])

IsDigits(ds) ==
    /\ Len(ds) >= 1
    /\ \A k \in 1..Len(ds) : \E d \in 1..Len(DigitChars) : DigitChars[d] = ds[k]

\* the question that generate_addition_data writes for the operands a and b
QuestionOf(draw) == generate_addition_data(draw[1], draw[2]).question

\* C1: every batch of task 2 has batch_size rows and batch_size answers, every
\* row has length max_question_length, and every id is in [0, input_vocab_size).
C1_BatchShape ==
    call = "get_batch" =>
        /\ DOMAIN ret.x = 1..batch_size
        /\ DOMAIN ret.y = 1..batch_size
        /\ \A r \in DOMAIN ret.x :
              /\ DOMAIN ret.x[r] = 1..max_question_length
              /\ max_question_length = 2 * ndigit + 2
              /\ \A k \in DOMAIN ret.x[r] :
                    ret.x[r][k] \in 0..(input_vocab_size - 1)

C1_Witness ==
    /\ call = "get_batch"
    /\ batch_size >= 2
    /\ \E r \in 1..batch_size : Len(QuestionOf(args.draws[r])) < max_question_length
    /\ \E r \in 1..batch_size : Len(QuestionOf(args.draws[r])) = max_question_length

\* C2: the question returned by generate_addition_data reads "{a}+{b}=" with a
\* and b in [0, 10^num_digits - 1], and the answer is the sum of the operands
\* parsed back out of the question.
C2_AnswerIsSumOfParsedOperands ==
    call = "generate_addition_data" =>
        LET q == ret.question
            plus == {k \in 1..Len(q) : q[k] = "+"}
        IN  /\ Cardinality(plus) = 1
            /\ Len(q) >= 1 /\ q[Len(q)] = "="
            /\ LET p == CHOOSE k \in plus : TRUE
                   left == SubSeq(q, 1, p - 1)
                   right == SubSeq(q, p + 1, Len(q) - 1)
               IN  /\ IsDigits(left) /\ IsDigits(right)
                   /\ ParseInt(left) \in 0..(Pow(10, args.num_digits) - 1)
                   /\ ParseInt(right) \in 0..(Pow(10, args.num_digits) - 1)
                   /\ q = str(ParseInt(left)) \o <<"+">> \o str(ParseInt(right)) \o <<"=">>
                   /\ ret.answer = ParseInt(left) + ParseInt(right)

C2_Witness ==
    /\ call = "generate_addition_data"
    /\ args.a = 94 /\ args.b = 13
    /\ ret.question = <<"9", "4", "+", "1", "3", "=">>
    /\ ret.answer = 107

\* C4: every label of a batch, every answer of the generator and every
\* correct_answer of test_model_addition run with its default num_digits_test
\* (= ndigit) is in [0, max_answer], so below num_answer_classes.
C4_LabelsAreClassIndices ==
    /\ call = "get_batch" =>
          \A r \in DOMAIN ret.y :
              ret.y[r] \in 0..max_answer /\ ret.y[r] < num_answer_classes
    /\ call = "generate_addition_data" =>
          ret.answer \in 0..max_answer /\ ret.answer < num_answer_classes
    /\ (call = "test_model_addition" /\ args.num_digits_test = ndigit) =>
          \A i \in DOMAIN ret.cases :
              /\ ret.cases[i].correct_answer \in 0..max_answer
              /\ ret.cases[i].correct_answer < num_answer_classes

C4_Witness ==
    /\ call = "get_batch"
    /\ ndigit = 2
    /\ \E r \in DOMAIN ret.y : ret.y[r] = max_answer
    /\ \E r \in DOMAIN ret.y : ret.y[r] = 0

\* C5: for every string s over the vocabulary, decode_input(encode_input(s)) = s
\* and encode_input(s) is as long as s.
C5_CodecRoundTrip ==
    call = "codec" =>
        /\ ret.decoded = args.s
        /\ Len(ret.encoded) = Len(args.s)

C5_Witness ==
    /\ call = "codec"
    /\ args.s = <<"=", " ">>
    /\ ret.encoded = <<11, 12>>

\* C7: forward on B rows returns logits of shape (B, num_answer_classes); the loss
\* is a scalar when labels are given and None exactly when they are not.
C7_ForwardBundle ==
    /\ call = "forward" =>
          /\ ret.logits.shape = <<Len(args.input_ids), num_answer_classes>>
          /\ (args.labels # None) => (ret.loss.tag = "tensor" /\ ret.loss.shape = <<>>)
          /\ (ret.loss = None) <=> (args.labels = None)
    /\ call = "test_model_addition" =>
          \A i \in DOMAIN ret.cases :
              ~ret.cases[i].raises =>
                  /\ ret.cases[i].outputs.logits.shape = <<1, num_answer_classes>>
                  /\ ret.cases[i].outputs.loss = None

C7_Witness ==
    /\ call = "forward"
    /\ Len(args.input_ids) = 2
    /\ args.labels # None
    /\ ret.loss # None

\* C8: the classification head is fed the hidden state at the final index
\* max_question_length - 1 of every row; that position holds a padding space for
\* every question shorter than max_question_length and '=' exactly for the
\* questions of maximal length.
C8_LastPositionPooling ==
    call = "forward" =>
        \A r \in DOMAIN args.input_ids :
            LET feature == ret.logits.src[r]
                symbol == input_itos[args.input_ids[r][feature.pos + 1]]
                q == QuestionOf(args.draws[r])
            IN  /\ feature.pos = max_question_length - 1
                /\ feature.ctx = args.input_ids[r]
                /\ Len(q) < max_question_length => symbol = " "
                /\ symbol = "=" <=> Len(q) = max_question_length

C8_Witness ==
    /\ call = "forward"
    /\ \E r \in DOMAIN args.input_ids :
          /\ Len(QuestionOf(args.draws[r])) < max_question_length
          /\ args.input_ids[r][max_question_length] = 12
    /\ \E r \in DOMAIN args.input_ids :
          /\ Len(QuestionOf(args.draws[r])) = max_question_length
          /\ args.input_ids[r][max_question_length] = 11

(***************************************************************************)
(* Claims about task 1.                                                    *)
(***************************************************************************)
\* C3: when the partition is longer than block_size, get_batch returns a batch
\* whose row r comes from an offset o in [0, len(partition) - block_size):
\* x[r] = partition[o : o+block_size], y[r] = partition[o+1 : o+block_size+1],
\* both windows inside the partition, both of block_size elements, and
\* y[r][i] = x[r][i+1] for i in [0, block_size - 1).
C3_ShiftedWindows ==
    (call = "nano_get_batch" /\ Len(partition(args.split)) > block_size) =>
        /\ ~ret.raised
        /\ DOMAIN ret.x = 1..batch_size /\ DOMAIN ret.y = 1..batch_size
        /\ \A r \in 1..batch_size :
              LET o == args.ix[r]
                  p == partition(args.split)
              IN  /\ o \in 0..(Len(p) - block_size - 1)
                  /\ o + 1 + block_size <= Len(p)
                  /\ Len(ret.x[r]) = block_size /\ Len(ret.y[r]) = block_size
                  /\ \A i \in 1..block_size :
                        ret.x[r][i] = p[o + i] /\ ret.y[r][i] = p[o + 1 + i]
                  /\ \A i \in 1..(block_size - 1) : ret.y[r][i] = ret.x[r][i + 1]

C3_Witness ==
    /\ call = "nano_get_batch"
    /\ ~ret.raised
    /\ block_size >= 3 /\ batch_size >= 2
    /\ args.ix[1] = 0
    /\ args.ix[2] = Len(partition(args.split)) - block_size - 1
    /\ args.ix[2] > 0
    /\ ret.x[2] # ret.y[2]

\* C6: get_batch(split) fails whenever the chosen partition has block_size ids or
\* fewer; in particular get_batch('train') with block_size = 10 fails when the
\* training partition has 10 ids or fewer.
C6_ShortPartitionFails ==
    (call = "nano_get_batch" /\ Len(partition(args.split)) <= block_size) =>
        ret.raised

C6_Witness ==
    /\ call = "nano_get_batch"
    /\ args.split = "train"
    /\ block_size = 10
    /\ Len(train_data) = 10
    /\ ret.raised

(***************************************************************************)
(* Claims about the training loop.                                         *)
(***************************************************************************)
\* the iterations whose evaluation decision has been taken
Decided(i) == i < iter_num \/ (i = iter_num /\ pc # "if") \/ pc = "done"

\* C9: in a run of max_iters iterations estimate_loss is called at iteration i
\* exactly once if i % eval_interval = 0 or i = max_iters - 1 and not at all
\* otherwise; the final step is evaluated once even when max_iters - 1 is a
\* multiple of eval_interval.
C9_EvalSchedule ==
    \A i \in DOMAIN eval_calls :
        /\ eval_calls[i] <= 1
        /\ Decided(i) =>
              eval_calls[i] =
                  IF i % eval_interval = 0 \/ i = max_iters - 1 THEN 1 ELSE 0
        /\ ~Decided(i) => eval_calls[i] = 0

C9_Witness ==
    /\ pc = "done"
    /\ max_iters = 3 /\ eval_interval = 2
    /\ eval_calls = [i \in 0..2 |-> IF i = 1 THEN 0 ELSE 1]

\* the training part of one iteration, for the batch b
StepLog(b) ==
    << [op |-> "get_batch", batch |-> b],
       [op |-> "forward", batch |-> b, labels |-> TRUE],
       [op |-> "zero_grad"],
       [op |-> "backward", batch |-> b],
       [op |-> "step"] >>

C10_StepInv ==
    \* what the iteration has done so far is the start of one training step on
    \* the batch it sampled, and all of it once the iteration is over
    /\ (Len(log) > 0) =>
          /\ Len(log) <= 5
          /\ log = SubSeq(StepLog(log[1].batch), 1, Len(log))
    /\ (pc = "for" /\ iter_num >= 0) => (Len(log) = 5 /\ used[Len(used)] = log[1].batch)
    \* one optimizer step per iteration over
    /\ Len(used) = params
    /\ params = IF pc = "for" \/ pc = "done" THEN iter_num + 1 ELSE iter_num
    \* no batch serves two steps
    /\ \A i, j \in DOMAIN used : i # j => used[i] # used[j]
    /\ pc = "done" => params = max_iters

Spaces(k) == [i \in 1..k |-> " "]

C15_AskAdderPreprocessing ==
    call = "ask_adder" =>
        LET p == args.problem_input
            ends == Len(p) > 0 /\ p[Len(p)] = "="
        IN  /\ ends => ret.question = p
            /\ ~ends => ret.question = p \o <<"=">>
            /\ ret.labels = None
            /\ ~ret.raised =>
                  /\ ret.encoded_question = <<encode_input(pad_question(ret.question))>>
                  /\ ret.outputs.loss = None
            /\ \A a, b \in randint_range(ndigit) :
                  LET q == str(a) \o <<"+">> \o str(b)
                      draws == [r \in 1..batch_size |-> <<a, b>>]
                  IN  (p = q \/ p = q \o <<"=">>) =>
                          /\ ~ret.raised
                          /\ ret.encoded_question = <<get_batch(draws).x[1]>>

C15_Witness ==
    /\ call = "ask_adder"
    /\ ndigit = 2
    /\ args.problem_input = <<"9", "+", "9", "9">>
    /\ ret.question = <<"9", "+", "9", "9", "=">>
    /\ ret.encoded_question = <<<<9, 10, 9, 9, 11, 12>>>>
    /\ ~ret.raised


\* C16: every input sequence handed to the model has the length
\* max_question_length, the context window of the trunk, whether it comes from
\* get_batch, from test_model_addition with any num_digits_test, or from
\* ask_adder with any problem string over the vocabulary.
C16_UniformLength ==
    /\ call = "get_batch" =>
          \A r \in DOMAIN ret.x : Len(ret.x[r]) = max_question_length
    /\ call = "test_model_addition" =>
          \A i \in DOMAIN ret.cases :
              Len(ret.cases[i].encoded_question[1]) = max_question_length
    /\ (call = "ask_adder" /\ ~encode_input_raises(args.problem_input)) =>
          Len(ret.encoded_question[1]) = max_question_length


\* the characters of '0123456789+= '
C17_Chars == {"0", "1", "2", "3", "4", "5", "6", "7", "8", "9", "+", "=", " "}

\* C17: encode_input raises exactly on the strings that hold a character
\* outside '0123456789+= ' and then returns no list, not even a partial one;
\* decode_input raises exactly on the lists that hold an id outside
\* [0, input_vocab_size); when they do not raise no symbol is dropped.
C17_CodecRaises ==
    /\ call = "encode_input" =>
          /\ ret.raised <=> (\E k \in DOMAIN args.s : args.s[k] \notin C17_Chars)
          /\ ret.raised => "value" \notin DOMAIN ret
          /\ ~ret.raised => Len(ret.value) = Len(args.s)
    /\ call = "decode_input" =>
          /\ ret.raised <=>
                (\E k \in DOMAIN args.l : args.l[k] \notin 0..(input_vocab_size - 1))
          /\ ret.raised => "value" \notin DOMAIN ret
          /\ ~ret.raised => Len(ret.value) = Len(args.l)

C17_Witness ==
    /\ call = "encode_input"
    /\ args.s = <<"1", "x">>
    /\ ret.raised /\ ret.exc = "KeyError" /\ ret.key = "x"

C17_WitnessDecode ==
    /\ call = "decode_input"
    /\ args.l = <<0, 13>>
    /\ ret.raised /\ ret.key = 13


(***************************************************************************)
(* Claims about the codec of task 1.                                       *)
(***************************************************************************)
\* the positions of the tokens of s that are in the vocabulary, and the j-th of them
C18_Known(ws) == {i \in 1..Len(ws) : \E k \in 1..Len(unique_words) : unique_words[k] = ws[i]}
C18_Nth(S, j) == CHOOSE i \in S : Cardinality({i2 \in S : i2 < i}) = j - 1

\* C18: encode never raises; it returns the ids of the tokens of the lower-cased
\* input that are in the vocabulary, in their order, and leaves out every other
\* token: the result is as long as the number of known tokens, so at most as
\* long as the token list, and empty when no token is known.
C18_EncodeSkipsUnknown ==
    call = "encode" =>
        LET ws == findall(lower(args.s))
            known == C18_Known(ws)
            value == ret.encoded.value
        IN  /\ ~ret.encoded.raised
            /\ Len(value) = Cardinality(known)
            /\ Len(value) <= Len(ws)
            /\ \A j \in 1..Len(value) :
                  /\ value[j] \in 0..(vocab_size - 1)
                  /\ unique_words[value[j] + 1] = ws[C18_Nth(known, j)]
            /\ known = {} => value = <<>>

C18_Witness ==
    /\ call = "encode"
    /\ text = <<".", "a">>
    /\ args.s = <<"(", "A">>
    /\ Len(findall(lower(args.s))) = 2
    /\ ret.encoded.value = <<1>>


\* the tokens ws in reverse order, as a text with one space between two tokens
RECURSIVE C19_ReversedText(_)
C19_ReversedText(ws) ==
    IF Len(ws) = 0 THEN <<>>
    ELSE IF Len(ws) = 1 THEN ws[1]
    ELSE C19_ReversedText(Tail(ws)) \o <<" ">> \o ws[1]

\* C19: in both tasks the symbol-to-id map and the id-to-symbol map are inverse
\* to each other, the ids are exactly 0..vocab_size-1 and no two symbols share
\* an id; in task 1 the ids follow the sorted order of the distinct tokens, and
\* the corpus with its tokens in another order gets the same vocabulary.
C19_VocabularyBijection ==
    /\ call = "none" =>
       LET W == {words[i] : i \in 1..Len(words)}
       IN  /\ DOMAIN stoi = W
           /\ DOMAIN itos = 0..(vocab_size - 1)
           /\ vocab_size = Cardinality(W)
           /\ \A w \in W : itos[stoi[w]] = w
           /\ \A i \in 0..(vocab_size - 1) : stoi[itos[i]] = i
           /\ {stoi[w] : w \in W} = 0..(vocab_size - 1)
           /\ \A w1, w2 \in W : w1 # w2 => stoi[w1] # stoi[w2]
           /\ \A w1, w2 \in W : stoi[w1] < stoi[w2] <=> str_less(w1, w2)
           /\ vocabulary(C19_ReversedText(words)) = unique_words
    /\ LET S == {"0", "1", "2", "3", "4", "5", "6", "7", "8", "9", "+", "=", " "}
       IN  /\ DOMAIN input_stoi = S
           /\ DOMAIN input_itos = 0..(input_vocab_size - 1)
           /\ input_vocab_size = Cardinality(S)
           /\ \A ch \in S : input_itos[input_stoi[ch]] = ch
           /\ \A i \in 0..(input_vocab_size - 1) : input_stoi[input_itos[i]] = i
           /\ {input_stoi[ch] : ch \in S} = 0..(input_vocab_size - 1)
           /\ \A c1, c2 \in S : c1 # c2 => input_stoi[c1] # input_stoi[c2]

C19_Witness ==
    /\ text = <<"a", ".", "(">>
    /\ words = << <<"a">>, <<".">>, <<"(">> >>
    /\ unique_words = << <<"(">>, <<".">>, <<"a">> >>
    /\ stoi[<<"a">>] = 2 /\ itos[0] = <<"(">>
    /\ call = "none"


\* what decode writes for one token, and for a list of tokens
C20_Piece(w) ==
    IF w \in {<<".">>, <<",">>, <<"!">>, <<"?">>, <<";">>, <<":">>, <<"-">>, <<"'">>}
    THEN w ELSE <<" ">> \o w
RECURSIVE C20_Joined(_)
C20_Joined(ws) == IF Len(ws) = 0 THEN <<>> ELSE C20_Piece(ws[1]) \o C20_Joined(Tail(ws))

\* C20: for a list of valid ids decode writes the tokens in order, a token that
\* is one of . , ! ? ; : - ' right after the text before it and every other
\* token after one space; so the output starts with a space when the first
\* token is a word, and decode(encode(s)) is the rejoined known tokens of s.
C20_DecodeJoining ==
    /\ (call = "decode" /\ \A k \in DOMAIN args.l : args.l[k] \in 0..(vocab_size - 1)) =>
          LET ws == [k \in DOMAIN args.l |-> unique_words[args.l[k] + 1]]
          IN  /\ ~ret.raised
              /\ ret.value = C20_Joined(ws)
              /\ (Len(ws) > 0 /\ is_word_char(ws[1][1])) => ret.value[1] = " "
    /\ call = "encode" =>
          /\ ~ret.decoded.raised
          /\ ret.decoded.value =
                C20_Joined([k \in DOMAIN ret.encoded.value |->
                               unique_words[ret.encoded.value[k] + 1]])

C20_Witness ==
    /\ call = "decode"
    /\ text = <<"a", ".", "(">>
    /\ args.l = <<2, 1>>
    /\ ret.value = <<" ", "a", ".">>

C20_WitnessRoundTrip ==
    /\ call = "encode"
    /\ text = <<"a", ".", "(">>
    /\ args.s = <<"a", ".">>
    /\ ret.decoded.value = <<" ", "a", ".">>
    /\ ret.decoded.value # args.s


(***************************************************************************)
(* Claims about the generation loop of task 1.                             *)
(***************************************************************************)
\* C12: before every forward pass the context is cut to the last block_size
\* ids of the generated sequence, in order (to all of it when it has
\* block_size ids or fewer), so the model is never given more than block_size
\* ids and never raises, whatever the length of the initial context.
C12_ContextCropped ==
    /\ gen_pc \in {"forward", "sample"} =>
          LET g == generated[1]
              c == context_cropped[1]
              k == IF Len(g) <= block_size THEN Len(g) ELSE block_size
          IN  /\ Len(context_cropped) = 1
              /\ Len(c) = k /\ Len(c) <= block_size
              /\ \A i \in 1..k : c[i] = g[Len(g) - k + i]
    /\ gen_pc = "sample" => gen_outputs.src.ctx = context_cropped[1]
    /\ gen_pc # "raised"

C12_Witness ==
    /\ gen_pc = "forward"
    /\ gen_i = 0
    /\ block_size = 2
    /\ context = << <<0, 1, 0>> >>
    /\ context_cropped = << <<1, 0>> >>

C12_WitnessGrown ==
    /\ gen_pc = "forward"
    /\ Len(context[1]) < block_size
    /\ Len(generated[1]) > block_size
    /\ Len(context_cropped[1]) = block_size


C13_Inv ==
    /\ gen_i \in 0..num_generated
    /\ gen_pc # "idle" =>
          LET g == generated[1]
              c == context[1]
          IN  /\ Len(generated) = 1
              /\ Len(g) = Len(c) + gen_i
              /\ SubSeq(g, 1, Len(c)) = c
              /\ \A k \in (Len(c) + 1)..Len(g) : g[k] \in 0..(vocab_size - 1)
    /\ gen_pc \in {"decode", "done"} =>
          /\ gen_i = 50
          /\ Len(generated[1]) = Len(context[1]) + 50
    /\ gen_pc # "raised"

\* a step that changes the generated sequence starts it as the context or
\* appends one id of the vocabulary to it
C13_Step ==
    generated' # generated =>
        \/ gen_pc = "idle" /\ generated' = context
        \/ \E id \in 0..(vocab_size - 1) : generated' = <<Append(generated[1], id)>>

\* C13: whatever ids are sampled, the generation loop ends after 50 iterations:
\* it always terminates, the final sequence has exactly 50 ids more than the
\* initial context, each step appends exactly one id in [0, vocab_size), and
\* the initial context stays the unchanged start of the generated sequence.
C13_FixedLength == []C13_Inv /\ [][C13_Step]_vars /\ <>(gen_pc = "done")

C13_Witness ==
    /\ gen_pc = "done"
    /\ vocab_size = 2
    /\ context = << <<0, 1, 0>> >>
    /\ Len(generated[1]) = 53
    /\ SubSeq(generated[1], 1, 5) = <<0, 1, 0, 1, 1>>


(***************************************************************************)
(* Claims about the model parameters.                                      *)
(***************************************************************************)
\* a step of estimate_loss, a call of test_model_addition or of ask_adder, a
\* step of the generation cell
C11_Reader ==
    \/ pc \in {"eval_batch", "eval_return"}
    \/ pc = "if" /\ pc' = "eval_batch"
    \/ call' \in {"test_model_addition", "ask_adder"} /\ call = "none"
    \/ gen_pc' # gen_pc

C11_Step ==
    /\ params' # params => (pc = "step" /\ pc' = "for" /\ params' = params + 1)
    /\ C11_Reader => params' = params

\* C11: the parameters change only in the optimizer's update step: the steps of
\* estimate_loss, test_model_addition, ask_adder and the generation loop of
\* task 1 leave them as they are, so after the training loop they stay what
\* its max_iters updates made them, whatever is called and however often.
C11_ParametersFrame == [][C11_Step]_vars /\ [](pc = "done" => params = max_iters)

C11_Witness ==
    /\ task = 2 /\ pc = "done"
    /\ max_iters = 2 /\ params = 2
    /\ eval_calls = [i \in 0..1 |-> 1]
    /\ call = "ask_adder"
    /\ ~training

C11_WitnessGenerated ==
    /\ task = 1 /\ pc = "done"
    /\ max_iters = 2 /\ params = 2
    /\ gen_pc = "done" /\ gen_i = 50


(***************************************************************************)
(* Claims about the configuration of task 2.                               *)
(***************************************************************************)
\* C21: num_answer_classes = 2*(10^ndigit - 1) + 1 for every ndigit >= 1, that
\* is 19 for ndigit = 1 and 199 for ndigit = 2: one class for each integer of
\* 0..max_answer, and that many logits per row of a forward pass.
C21_NumAnswerClasses ==
    /\ num_answer_classes = 2 * (Pow(10, ndigit) - 1) + 1
    /\ ndigit = 1 => num_answer_classes = 19
    /\ ndigit = 2 => num_answer_classes = 199
    /\ Cardinality(0..max_answer) = num_answer_classes
    /\ call = "forward" => ret.logits.shape[2] = Cardinality(0..max_answer)

C21_Witness ==
    /\ call = "forward"
    /\ ndigit = 2
    /\ ret.logits.shape[2] = 199


(***************************************************************************)
(* Claims about the data of task 1.                                        *)
(***************************************************************************)
\* C22: train_data is the first floor(len(data)/2) ids of the encoded corpus and
\* val_data is all the remaining ids: their concatenation is the corpus in
\* order, no position is in both, val_data is as long as train_data or one id
\* longer, and the rows of a batch are read at the positions of its partition.
C22_PositionalSplit ==
    LET half == Len(data) \div 2
    IN  /\ Len(train_data) = half
        /\ \A i \in 1..half : train_data[i] = data[i]
        /\ Len(val_data) = Len(data) - half
        /\ \A j \in 1..(Len(data) - half) : val_data[j] = data[half + j]
        /\ train_data \o val_data = data
        /\ Len(val_data) - Len(train_data) \in {0, 1}
        /\ (call = "nano_get_batch" /\ ~ret.raised) =>
              \A r \in 1..batch_size : \A i \in 1..block_size :
                  ret.x[r][i] = data[(IF args.split = "train" THEN 0 ELSE half)
                                     + args.ix[r] + i]

C22_Witness ==
    /\ call = "nano_get_batch"
    /\ args.split = "val"
    /\ ~ret.raised
    /\ Len(data) = 7
    /\ Len(train_data) = 3 /\ Len(val_data) = 4
    /\ args.ix[1] = 1


(***************************************************************************)
(* Further claims about the training loop.                                 *)
(***************************************************************************)
\* the positions in the random stream of the batches behind a list of losses
C23_Ids(losses) == [k \in 1..Len(losses) |-> losses[k].batch]
\* the positions first, first + 1, ..., first + count - 1
C23_Run(first, count) == [k \in 1..count |-> first + k - 1]

\* C23: a call of estimate_loss draws eval_iters batches for 'train' and then
\* eval_iters batches for 'val', each one fresh from the stream (2 * eval_iters
\* draws in the call, no batch twice, none of them the batch of a training
\* step), and the figure of a split is the mean over those eval_iters losses.
C23_EvaluationBatches ==
    /\ Len(eval_out) <= 2
    /\ \A j \in 1..Len(eval_out) :
          /\ eval_out[j].split = <<"train", "val">>[j]
          /\ Len(eval_out[j].mean_of) = eval_iters
          /\ \A k \in 1..eval_iters :
                /\ eval_out[j].mean_of[k].labels
                /\ eval_out[j].mean_of[k].batch \notin {used[u] : u \in 1..Len(used)}
                /\ batch # None => eval_out[j].mean_of[k].batch # batch.id
    /\ pc = "eval_batch" =>
          /\ Len(eval_losses) = eval_k /\ eval_k <= eval_iters
          /\ C23_Ids(eval_losses) = C23_Run(rng - eval_k, eval_k)
          /\ Len(eval_out) = (IF eval_split = "train" THEN 0 ELSE 1)
    /\ pc = "eval_return" =>
          /\ Len(eval_out) = 2
          /\ C23_Ids(eval_out[1].mean_of) = C23_Run(rng - 2 * eval_iters, eval_iters)
          /\ C23_Ids(eval_out[2].mean_of) = C23_Run(rng - eval_iters, eval_iters)
          /\ \A u \in 1..Len(used) : used[u] < rng - 2 * eval_iters

C23_Witness ==
    /\ pc = "eval_return"
    /\ eval_iters = 2
    /\ Len(used) = 2
    /\ C23_Ids(eval_out[1].mean_of) = <<rng - 4, rng - 3>>
    /\ C23_Ids(eval_out[2].mean_of) = <<rng - 2, rng - 1>>


\* C24: estimate_loss puts the model in eval mode before its first forward pass
\* and back in train mode before it returns: every forward pass of an
\* evaluation runs in eval mode, and every statement of a training step runs
\* in train mode, in every iteration.
C24_ModeDiscipline ==
    /\ pc \in {"eval_batch", "eval_return"} => ~training
    /\ pc \in {"for", "if", "get_batch", "forward", "zero_grad", "backward", "step",
               "done"} => training
    /\ \A k \in 1..Len(eval_losses) : ~eval_losses[k].training
    /\ \A j \in 1..Len(eval_out) :
          \A k \in 1..Len(eval_out[j].mean_of) : ~eval_out[j].mean_of[k].training
    /\ outputs # None => outputs.training

C24_Witness ==
    /\ pc = "step"
    /\ iter_num >= 1
    /\ eval_calls[iter_num] = 1
    /\ Len(eval_out) = 2
    /\ ~eval_out[2].mean_of[1].training
    /\ eval_out[2].mean_of[1].params = params
    /\ outputs.training /\ training


\* iteration i of a run of mi iterations with interval ei evaluates
C25_Due(i, mi, ei) == i % ei = 0 \/ i = mi - 1
\* the iterations of such a run that evaluate
C25_Schedule(mi, ei) == {i \in 0..(mi - 1) : C25_Due(i, mi, ei)}
\* the stream positions of the batches that the training steps i, i + 1, ... of
\* a run with (mi, ei, ev) use, when drawn batches precede iteration i: each
\* evaluation takes 2 * ev batches, each training step the next one
RECURSIVE C25_RunFrom(_, _, _, _, _)
C25_RunFrom(i, drawn, mi, ei, ev) ==
    IF i >= mi THEN <<>>
    ELSE LET at == drawn + (IF C25_Due(i, mi, ei) THEN 2 * ev ELSE 0)
         IN  <<at>> \o C25_RunFrom(i + 1, at + 1, mi, ei, ev)
C25_Run(mi, ei, ev) == C25_RunFrom(0, 0, mi, ei, ev)

\* what holds of one run: its training step k uses the batch that follows the
\* 2 * eval_iters batches of each evaluation at an iteration <= k and the
\* batches of the training steps before it, so the batches of a run are a
\* function of (max_iters, eval_interval, eval_iters)
C25_OneRun ==
    /\ used = SubSeq(C25_Run(max_iters, eval_interval, eval_iters), 1, Len(used))
    /\ \A k \in 1..Len(used) :
          used[k] = (k - 1) + 2 * eval_iters
                    * Cardinality({i \in C25_Schedule(max_iters, eval_interval) : i <= k - 1})
    /\ pc = "done" => used = C25_Run(max_iters, eval_interval, eval_iters)
    /\ pc = "eval_return" => rng = Len(used) + 2 * eval_iters
                    * Cardinality({i \in C25_Schedule(max_iters, eval_interval) : i <= iter_num})

\* C25, as claimed: ... and any other run from the same seed that trains, with
\* another eval_interval or another eval_iters, trains on another sequence of
\* batches.
C25_SharedStream ==
    /\ C25_OneRun
    /\ (pc = "done" /\ max_iters >= 1) =>
          \A ei \in 1..MaxEvalInterval, ev \in 1..MaxEvalIters :
              (ei # eval_interval \/ ev # eval_iters) =>
                  C25_Run(max_iters, ei, ev) # used

\* C25, amended: training and evaluation batches come from one stream; each
\* evaluation takes 2 * eval_iters batches of it and training step k the batch
\* after all batches drawn before it; a run with the same seed and the
\* same configuration trains on the same batches, and a run of as many
\* iterations with another eval_interval or eval_iters trains on other
\* batches exactly when it trains at all and its eval_iters differs or the set
\* of its evaluating iterations differs.
C25_SharedStreamAmended ==
    /\ C25_OneRun
    /\ pc = "done" =>
          \A ei \in 1..MaxEvalInterval, ev \in 1..MaxEvalIters :
              (C25_Run(max_iters, ei, ev) # used)
                  <=> /\ max_iters >= 1
                      /\ \/ ev # eval_iters
                         \/ C25_Schedule(max_iters, ei) # C25_Schedule(max_iters, eval_interval)

C25_Witness ==
    /\ pc = "done"
    /\ max_iters = 3 /\ eval_interval = 2 /\ eval_iters = 1
    /\ used = <<2, 3, 6>>
    /\ C25_Run(3, 1, 1) = <<2, 5, 8>>
    /\ C25_Run(3, 3, 1) = <<2, 3, 6>>


\* the parameters, as counts of optimizer steps, that the passes behind the
\* figures of the last evaluation saw
C26_Evaluated ==
    {eval_out[j].mean_of[k].params : j \in 1..Len(eval_out), k \in 1..eval_iters}
    \cup {eval_losses[k].params : k \in 1..Len(eval_losses)}

\* C26: in an iteration that evaluates, the evaluation runs before the training
\* step: the passes of the evaluation at iteration i see the parameters after
\* exactly i optimizer steps.  So the last figures, of iteration max_iters - 1,
\* are those of max_iters - 1 steps, the parameters at the end of the loop
\* have had max_iters steps, and the loop never evaluates these.
C26_EvaluationBeforeStep ==
    /\ pc \in {"eval_batch", "eval_return"} =>
          /\ log = <<>>
          /\ params = iter_num /\ Len(used) = iter_num
          /\ pc = "eval_return" => C26_Evaluated = {iter_num}
    /\ (pc \in {"get_batch", "forward", "zero_grad", "backward", "step"}
            /\ eval_due(iter_num)) =>
          /\ eval_calls[iter_num] = 1
          /\ C26_Evaluated = {iter_num}
          /\ params = iter_num
    /\ \A p \in C26_Evaluated : p < max_iters
    /\ (pc = "done" /\ max_iters >= 1) =>
          /\ params = max_iters
          /\ Len(eval_out) = 2
          /\ C26_Evaluated = {max_iters - 1}

C26_Witness ==
    /\ pc = "done"
    /\ max_iters = 3 /\ eval_interval = 3
    /\ params = 3
    /\ eval_calls = [i \in 0..2 |-> IF i = 1 THEN 0 ELSE 1]
    /\ eval_out[2].mean_of[eval_iters].params = 2


(***************************************************************************)
(* Claims about the error path of ask_adder.                               *)
(***************************************************************************)
\* C27: ask_adder puts the model in eval mode before it encodes its input.  When
\* the input has a character outside the vocabulary, encode_input raises
\* KeyError and the call ends with the model in eval mode; the model is back
\* in train mode exactly when the call returns normally.
C27_AskAdderErrorPath ==
    call = "ask_adder" =>
        /\ (\E k \in 1..Len(args.problem_input) : args.problem_input[k] \notin C17_Chars)
              => (ret.raised /\ ret.exc = "KeyError" /\ ret.outputs = None /\ ~training)
        /\ ret.raised <=> ~training

C27_Witness ==
    /\ call = "ask_adder"
    /\ args.problem_input = <<"1", "x">>
    /\ ret.question = <<"1", "x", "=">>
    /\ ret.raised /\ ret.exc = "KeyError"
    /\ ~training


\* the forward passes of the evaluation in progress or last done
C28_EvalPasses ==
    {eval_out[j].mean_of[k] : j \in 1..Len(eval_out), k \in 1..eval_iters}
    \cup {eval_losses[k] : k \in 1..Len(eval_losses)}

\* C28: in task 1 the batch of every training step (forward pass, backward pass,
\* optimizer step) is drawn from train_data.  A batch of val_data is seen only
\* by a forward pass of estimate_loss: in eval mode, with no gradient kept of
\* it and no optimizer step taken on it.
C28_ValidationNeverTrains ==
    task = 1 =>
        /\ batch # None => batch.src = "train_data"
        /\ outputs # None => outputs.src = "train_data"
        /\ pc \in {"forward", "zero_grad", "backward", "step"} =>
              batch.id = rng - 1
        /\ pc \in {"zero_grad", "backward", "step"} => outputs.batch = batch.id
        /\ pc = "step" => grads.of = batch.id
        /\ \A u \in 1..Len(used) : \A p \in C28_EvalPasses : used[u] # p.batch
        /\ \A p \in C28_EvalPasses :
              /\ ~p.training
              /\ grads # None => grads.of # p.batch
        /\ \A j \in 1..Len(eval_out) : \A k \in 1..eval_iters :
              eval_out[j].mean_of[k].src = <<"train_data", "val_data">>[j]

C28_Witness ==
    /\ task = 1
    /\ pc = "step"
    /\ iter_num >= 1
    /\ eval_calls[iter_num] = 1
    /\ batch.src = "train_data" /\ grads.of = batch.id
    /\ eval_out[2].mean_of[1].src = "val_data"
    /\ eval_out[2].mean_of[1].batch < batch.id


\* C29: task 2 has no held-out data.  get_batch takes no split: the batches
\* behind the 'train' figures and those behind the 'val' figures of
\* estimate_loss are drawn by the generator that draws the training batches,
\* over the same operands; the split only names the entry of the result.
C29_NoHeldOutData ==
    task = 2 =>
        /\ batch # None => batch.src = "generate_addition_data"
        /\ \A k \in 1..Len(eval_losses) : eval_losses[k].src = "generate_addition_data"
        /\ \A j \in 1..Len(eval_out) :
              /\ eval_out[j].split = <<"train", "val">>[j]
              /\ \A k \in 1..eval_iters :
                    eval_out[j].mean_of[k].src = "generate_addition_data"

C29_Witness ==
    /\ task = 2
    /\ pc = "eval_return"
    /\ iter_num >= 1
    /\ eval_out[1].split = "train" /\ eval_out[2].split = "val"
    /\ eval_out[1].mean_of[1].src = eval_out[2].mean_of[1].src
    /\ eval_out[2].mean_of[1].src = batch.src


(***************************************************************************)
(* Further claims about the codec of task 1.                               *)
(***************************************************************************)
\* C30: for every list l of ids of [0, vocab_size), encode(decode(l)) = l:
\* decode writes a space before every token that is not one of its joined
\* punctuation characters, so two words never touch, and the tokenizer makes a
\* token of every punctuation character, so the tokens of decode(l) are the
\* tokens of l, one for one, and each is in the vocabulary.
C30_IdRoundTrip ==
    call = "decode_encode" =>
        /\ ~ret.decoded.raised
        /\ ~ret.encoded.raised
        /\ findall(lower(ret.decoded.value)) = [k \in 1..Len(args.l) |-> itos[args.l[k]]]
        /\ ret.encoded.value = args.l

C30_Witness ==
    /\ call = "decode_encode"
    /\ text = <<"a", ".">>
    /\ args.l = <<1, 1>>
    /\ ret.decoded.value = <<" ", "a", " ", "a">>
    /\ ret.encoded.value = <<1, 1>>

C30_WitnessPunctuation ==
    /\ call = "decode_encode"
    /\ text = <<"a", ".", "(">>
    /\ args.l = <<1, 0>>
    /\ ret.decoded.value = <<".", " ", "(">>
    /\ ret.encoded.value = <<1, 0>>

====
